---- MODULE Spec2Model ----
(***************************************************************************)
(* Model of minesweeper.py: the Minesweeper board (true mines, neighbour   *)
(* counts), the Sentence reductions, and the MinesweeperAI knowledge base  *)
(* with add_knowledge, make_safe_move and make_random_move.                *)
(*                                                                         *)
(* Cells are pairs <<row, col>>, 0-based as in the source.  A Sentence is  *)
(* a record [cells, count]; the knowledge base is the list of sentences in *)
(* the order the source keeps it (a Python list, appended on each probe).  *)
(***************************************************************************)
EXTENDS Integers, Sequences, FiniteSets, TLC

\* Bounds of the model
MaxHeight == 2
MaxWidth == 3
MaxMines == 2
MaxUpdates == 3
\* Scenario B of the specification: a 3x3 board whose single mine is at (0,0),
\* probed until all 8 other cells have been probed
ScenarioBProbes == 8
\* Direct calls of mark_mine / mark_safe, and the add_knowledge calls around
\* them, that SpecMark follows
MaxMarks == 1
MaxMarkUpdates == 2

\* Python's None as the value of a move query (a cell is a pair)
None == <<>>

VARIABLES
    height,       \* Minesweeper.height / MinesweeperAI.height
    width,        \* Minesweeper.width / MinesweeperAI.width
    board,        \* Minesweeper.mines: the cells that hold a mine
    moves_made,   \* MinesweeperAI.moves_made
    mines,        \* MinesweeperAI.mines
    safes,        \* MinesweeperAI.safes
    knowledge,    \* MinesweeperAI.knowledge
    lastOp,       \* the method of MinesweeperAI that returned last
    lastCall,     \* arguments <<cell, count>> of the last add_knowledge
    sentence,     \* the Sentence built by the last add_knowledge (line 205)
    move,         \* value returned by the last call (None after add_knowledge)
    budget,       \* number of add_knowledge calls the model still follows
    marks,        \* number of direct mark_mine / mark_safe calls still followed
    inRange,      \* whether 0 <= count <= len(cells) held for every sentence
                  \* of self.knowledge after each statement of the last call
                  \* that changed a sentence
    other         \* a second MinesweeperAI given the same calls, whose
                  \* knowledge list is in another order when the passes of
                  \* add_knowledge start (used by SpecOrder only)

vars == <<height, width, board, moves_made, mines, safes, knowledge,
          lastOp, lastCall, sentence, move, budget, marks, inRange, other>>

----------------------------------------------------------------------------
\* The board

Cells(h, w) == (0 .. h - 1) \X (0 .. w - 1)

\* range(i - 1, i + 2) x range(j - 1, j + 2): the 3x3 window around a cell,
\* the cell itself and out-of-bounds coordinates included
Window(cell) == (cell[1] - 1 .. cell[1] + 1) \X (cell[2] - 1 .. cell[2] + 1)

nearby_mines(b, h, w, cell) ==
    Cardinality({c \in Window(cell) : c # cell /\ c \in Cells(h, w) /\ c \in b})

----------------------------------------------------------------------------
\* Sentence

Sentence(cells, count) == [cells |-> cells, count |-> count]

\* The value of known_mines / known_safes: a set of cells, or None
Some(cells) == [none |-> FALSE, val |-> cells]
NoSet == [none |-> TRUE, val |-> {}]

known_mines(s) == IF Cardinality(s.cells) = s.count THEN Some(s.cells) ELSE NoSet

\* Variant of known_safes that tests the cells instead of the count
known_safes_EmptyOnly(s) == IF s.cells = {} THEN Some(s.cells) ELSE NoSet

known_safes(s) == IF s.count = 0 THEN Some(s.cells) ELSE NoSet

\* Python truthiness of the value of known_mines / known_safes:
\* None and the empty set are both false
Truthy(x) == ~x.none /\ x.val # {}

\* Variant of Sentence.mark_mine that forgets line 130 (count -= 1)
Sentence_mark_mine_KeepsCount(s, cell) ==
    [cells |-> s.cells \ {cell}, count |-> s.count]

Sentence_mark_mine(s, cell) ==
    IF cell \in s.cells
    THEN [cells |-> s.cells \ {cell}, count |-> s.count - 1]
    ELSE s

\* Variant of Sentence.mark_safe with the else branch of Sentence.mark_mine
Sentence_mark_safe_Decrements(s, cell) ==
    IF cell \in s.cells
    THEN [cells |-> s.cells \ {cell}, count |-> s.count - 1]
    ELSE s

Sentence_mark_safe(s, cell) ==
    [cells |-> s.cells \ {cell}, count |-> s.count]

----------------------------------------------------------------------------
\* MinesweeperAI: the knowledge base as a record
\*   [mines, safes, moves_made, knowledge, inRange]
\* inRange is not a field of the source: it records that every sentence of
\* self.knowledge had 0 <= count <= len(cells) after each change so far

InRange(list) ==
    \A i \in DOMAIN list :
        0 <= list[i].count /\ list[i].count <= Cardinality(list[i].cells)

\* Variant of mark_mine that drops the sentences it has emptied
mark_mine_DropsEmpty(kb, cell) ==
    LET NonEmpty(s) == s.cells # {}
        marked == [i \in DOMAIN kb.knowledge |->
                      Sentence_mark_mine(kb.knowledge[i], cell)]
    IN [kb EXCEPT !.mines = @ \cup {cell},
                  !.knowledge = SelectSeq(marked, NonEmpty),
                  !.inRange = @ /\ InRange(marked)]

mark_mine(kb, cell) ==
    LET marked == [i \in DOMAIN kb.knowledge |->
                      Sentence_mark_mine(kb.knowledge[i], cell)]
    IN [kb EXCEPT !.mines = @ \cup {cell},
                  !.knowledge = marked,
                  !.inRange = @ /\ InRange(marked)]

\* Variant of mark_safe without the loop of lines 181-182
mark_safe_NoPropagation(kb, cell) ==
    [kb EXCEPT !.safes = @ \cup {cell}]

\* Variant of mark_safe that assigns the set instead of adding to it
mark_safe_Overwrites(kb, cell) ==
    [kb EXCEPT !.safes = {cell},
               !.knowledge = [i \in DOMAIN @ |-> Sentence_mark_safe(@[i], cell)]]

mark_safe(kb, cell) ==
    LET marked == [i \in DOMAIN kb.knowledge |->
                      Sentence_mark_safe(kb.knowledge[i], cell)]
    IN [kb EXCEPT !.safes = @ \cup {cell},
                  !.knowledge = marked,
                  !.inRange = @ /\ InRange(marked)]

\* for mine_found in <set>: self.mark_mine(mine_found)
RECURSIVE MarkMines(_, _)
MarkMines(kb, S) ==
    IF S = {} THEN kb
    ELSE LET c == CHOOSE x \in S : TRUE
         IN MarkMines(mark_mine(kb, c), S \ {c})

\* for safe_found in <set>: self.mark_safe(safe_found)
RECURSIVE MarkSafes(_, _)
MarkSafes(kb, S) ==
    IF S = {} THEN kb
    ELSE LET c == CHOOSE x \in S : TRUE
         IN MarkSafes(mark_safe(kb, c), S \ {c})

\* Variant of get_enclosed_cells without the test of line 281
get_enclosed_cells_KeepsSafes(kb, h, w, cell, count) ==
    [cells |-> {c \in Window(cell) :
                   /\ c \in Cells(h, w)
                   /\ c # cell
                   /\ c \notin kb.mines},
     count |-> count - Cardinality({c \in Window(cell) : c \in kb.mines})]

\* Variant of get_enclosed_cells without lines 284-285
get_enclosed_cells_NoAdjust(kb, h, w, cell, count) ==
    [cells |-> {c \in Window(cell) :
                   /\ c \in Cells(h, w)
                   /\ c # cell
                   /\ c \notin kb.safes
                   /\ c \notin kb.mines},
     count |-> count]

\* Variant of get_enclosed_cells without the test of line 282
get_enclosed_cells_KeepsMines(kb, h, w, cell, count) ==
    [cells |-> {c \in Window(cell) :
                   /\ c \in Cells(h, w)
                   /\ c # cell
                   /\ c \notin kb.safes},
     count |-> count - Cardinality({c \in Window(cell) : c \in kb.mines})]

get_enclosed_cells(kb, h, w, cell, count) ==
    [cells |-> {c \in Window(cell) :
                   /\ c \in Cells(h, w)
                   /\ c # cell
                   /\ c \notin kb.safes
                   /\ c \notin kb.mines},
     count |-> count - Cardinality({c \in Window(cell) : c \in kb.mines})]

\* The loop of lines 209-231 from position i on; k is the position of the
\* new sentence in the list (the last one in add_knowledge)
RECURSIVE Conclusion(_, _, _)
Conclusion(kb, k, i) ==
    IF i > Len(kb.knowledge) THEN kb
    ELSE LET s == kb.knowledge[i]
             new == kb.knowledge[k]
         IN IF s = new THEN Conclusion(kb, k, i + 1)
            ELSE IF new.cells \subseteq s.cells
            THEN LET set_diff == s.cells \ new.cells
                 IN IF s.count = new.count
                    THEN Conclusion(MarkSafes(kb, set_diff), k, i + 1)
                    ELSE IF Cardinality(set_diff) = s.count - new.count
                    THEN Conclusion(MarkMines(kb, set_diff), k, i + 1)
                    ELSE Conclusion(kb, k, i + 1)
            ELSE IF s.cells \subseteq new.cells
            THEN LET set_diff == new.cells \ s.cells
                 IN IF s.count = new.count
                    THEN Conclusion(MarkSafes(kb, set_diff), k, i + 1)
                    ELSE IF Cardinality(set_diff) = new.count - s.count
                    THEN Conclusion(MarkMines(kb, set_diff), k, i + 1)
                    ELSE Conclusion(kb, k, i + 1)
            ELSE Conclusion(kb, k, i + 1)

\* s not in unique_knowledge, with Sentence.__eq__
InList(s, list) == \E j \in DOMAIN list : list[j] = s

RECURSIVE UniqueFrom(_, _, _)
UniqueFrom(list, i, unique_knowledge) ==
    IF i > Len(list) THEN unique_knowledge
    ELSE IF InList(list[i], unique_knowledge)
         THEN UniqueFrom(list, i + 1, unique_knowledge)
         ELSE UniqueFrom(list, i + 1, Append(unique_knowledge, list[i]))

remove_duplicates(kb) ==
    [kb EXCEPT !.knowledge = UniqueFrom(@, 1, <<>>)]

\* The sentences of list at the positions not in popped, in list order
RECURSIVE Kept(_, _, _)
Kept(list, popped, i) ==
    IF i > Len(list) THEN <<>>
    ELSE IF i \in popped THEN Kept(list, popped, i + 1)
         ELSE <<list[i]>> \o Kept(list, popped, i + 1)

\* The loop of lines 304-313 from position i on.  The marks go to every
\* sentence of self.knowledge, the ones already appended to final_knowledge
\* included (they are the same objects); popped collects the positions whose
\* sentence was popped from final_knowledge.
RECURSIVE SuresFrom(_, _, _)
SuresFrom(kb, i, popped) ==
    IF i > Len(kb.knowledge)
    THEN [kb EXCEPT !.knowledge = Kept(@, popped, 1)]
    ELSE LET s == kb.knowledge[i]
         IN IF Truthy(known_mines(s))
            THEN SuresFrom(MarkMines(kb, known_mines(s).val), i + 1, popped \cup {i})
            ELSE IF Truthy(known_safes(s))
            THEN SuresFrom(MarkSafes(kb, known_safes(s).val), i + 1, popped \cup {i})
            ELSE SuresFrom(kb, i + 1, popped)

\* Variant of remove_sures that returns before its loop
remove_sures_Skipped(kb) == kb

remove_sures(kb) == SuresFrom(kb, 1, {})

\* Variant of the start of add_knowledge without line 200
AppendSentence_NoMarkSafe(kb, h, w, cell, count) ==
    LET kb1 == [kb EXCEPT !.moves_made = @ \cup {cell}]
        new == get_enclosed_cells(kb1, h, w, cell, count)
        appended == Append(kb1.knowledge, Sentence(new.cells, new.count))
    IN [kb1 EXCEPT !.knowledge = appended,
                   !.inRange = @ /\ InRange(appended)]

\* add_knowledge up to and including line 206
AppendSentence(kb, h, w, cell, count) ==
    LET kb1 == [mark_safe(kb, cell) EXCEPT !.moves_made = @ \cup {cell}]
        new == get_enclosed_cells(kb1, h, w, cell, count)
        appended == Append(kb1.knowledge, Sentence(new.cells, new.count))
    IN [kb1 EXCEPT !.knowledge = appended,
                   !.inRange = @ /\ InRange(appended)]

add_knowledge(kb, h, w, cell, count) ==
    LET kb2 == AppendSentence(kb, h, w, cell, count)
        kb3 == Conclusion(kb2, Len(kb2.knowledge), 1)
    IN remove_sures(remove_duplicates(kb3))

\* Variant of make_safe_move that forgets to take moves_made out
make_safe_move_AnySafe(kb) ==
    IF kb.safes = {} THEN {None} ELSE kb.safes

\* The orders of a list of n sentences
Perms(n) == {p \in [1 .. n -> 1 .. n] : \A i, j \in 1 .. n : p[i] = p[j] => i = j}

Permute(list, p) == [i \in 1 .. Len(list) |-> list[p[i]]]

\* add_knowledge with self.knowledge in the order p when the loop of line 209
\* starts; the new sentence is then at the position k with p[k] = n
add_knowledge_ordered(kb, h, w, cell, count, p) ==
    LET kb2 == AppendSentence(kb, h, w, cell, count)
        n == Len(kb2.knowledge)
        kbp == [kb2 EXCEPT !.knowledge = Permute(@, p)]
        k == CHOOSE i \in 1 .. n : p[i] = n
        kb3 == Conclusion(kbp, k, 1)
    IN remove_sures(remove_duplicates(kb3))

\* The values make_safe_move can return: safe_cells.pop() removes an
\* arbitrary element of the local set safe_cells
make_safe_move(kb) ==
    LET safe_cells == kb.safes \ kb.moves_made
    IN IF safe_cells = {} THEN {None} ELSE safe_cells

\* Variant of make_random_move that also leaves out the cells known safe
make_random_move_SkipsSafes(kb, h, w) ==
    LET all_moves == {c \in Cells(h, w) :
                         c \notin kb.mines /\ c \notin kb.moves_made
                             /\ c \notin kb.safes}
    IN IF Cardinality(all_moves) = 0 THEN {None} ELSE all_moves

\* The values make_random_move can return: random.choice over all_moves
make_random_move(kb, h, w) ==
    LET all_moves == {c \in Cells(h, w) :
                         c \notin kb.mines /\ c \notin kb.moves_made}
    IN IF Cardinality(all_moves) = 0 THEN {None} ELSE all_moves

----------------------------------------------------------------------------
\* The state machine

KB == [mines |-> mines, safes |-> safes, moves_made |-> moves_made,
       knowledge |-> knowledge, inRange |-> TRUE]

\* Minesweeper(height, width, mines): any placement of the mines
AnyBoard ==
    /\ height \in 1 .. MaxHeight
    /\ width \in 1 .. MaxWidth
    /\ board \in {b \in SUBSET Cells(height, width) : Cardinality(b) <= MaxMines}

Boards == AnyBoard /\ budget = MaxUpdates /\ marks = 0

ScenarioB ==
    /\ height = 3
    /\ width = 3
    /\ board = {<<0, 0>>}
    /\ budget = ScenarioBProbes
    /\ marks = 0

\* MinesweeperAI(height, width)
NewAI ==
    /\ moves_made = {}
    /\ mines = {}
    /\ safes = {}
    /\ knowledge = <<>>
    /\ lastOp = "init"
    /\ lastCall = None
    /\ sentence = Sentence({}, 0)
    /\ move = None
    /\ inRange = TRUE
    /\ other = KB

Init == Boards /\ NewAI

InitB == (Boards \/ ScenarioB) /\ NewAI

\* The 3x3 boards with a single mine
InitSquare ==
    /\ height = 3
    /\ width = 3
    /\ \E m \in Cells(3, 3) : board = {m}
    /\ budget = MaxUpdates
    /\ marks = 0
    /\ NewAI

InitMark == AnyBoard /\ budget = MaxMarkUpdates /\ marks = MaxMarks /\ NewAI

\* self.add_knowledge(cell, count)
Call_add_knowledge(cell, count) ==
    LET kb2 == AppendSentence(KB, height, width, cell, count)
        kb == add_knowledge(KB, height, width, cell, count)
    IN /\ mines' = kb.mines
       /\ safes' = kb.safes
       /\ moves_made' = kb.moves_made
       /\ knowledge' = kb.knowledge
       /\ lastCall' = <<cell, count>>
       /\ sentence' = kb2.knowledge[Len(kb2.knowledge)]
       /\ lastOp' = "add_knowledge"
       /\ budget' = budget - 1
       /\ move' = None
       /\ inRange' = kb.inRange
       /\ UNCHANGED <<height, width, board, marks>>

\* A Sentence on its own: Sentence(cells, count) for any cells of the largest
\* grid and any count the cells allow
InitSentence ==
    /\ height = MaxHeight
    /\ width = MaxWidth
    /\ board = {}
    /\ moves_made = {}
    /\ mines = {}
    /\ safes = {}
    /\ knowledge = <<>>
    /\ lastOp = "init"
    /\ lastCall = None
    /\ \E cells \in SUBSET Cells(height, width) :
          \E count \in 0 .. Cardinality(cells) :
              sentence = Sentence(cells, count)
    /\ move = None
    /\ budget = 0
    /\ marks = 0
    /\ inRange = TRUE
    /\ other = KB

\* sentence.mark_mine(cell)
SentenceMarkMine ==
    /\ \E cell \in Cells(height, width) :
          /\ sentence' = Sentence_mark_mine(sentence, cell)
          /\ lastCall' = <<cell>>
    /\ lastOp' = "Sentence.mark_mine"
    /\ UNCHANGED <<height, width, board, moves_made, mines, safes, knowledge,
                   move, budget, marks, inRange, other>>

\* sentence.mark_safe(cell)
SentenceMarkSafe ==
    /\ \E cell \in Cells(height, width) :
          /\ sentence' = Sentence_mark_safe(sentence, cell)
          /\ lastCall' = <<cell>>
    /\ lastOp' = "Sentence.mark_safe"
    /\ UNCHANGED <<height, width, board, moves_made, mines, safes, knowledge,
                   move, budget, marks, inRange, other>>

\* The caller probes a cell that holds no mine and passes the board's count
AddKnowledge ==
    /\ budget > 0
    /\ \E cell \in Cells(height, width) \ board :
         Call_add_knowledge(cell, nearby_mines(board, height, width, cell))
    /\ UNCHANGED other

\* The same call made on both MinesweeperAI objects
AddKnowledgeReordered ==
    /\ budget > 0
    /\ \E cell \in Cells(height, width) \ board :
         LET count == nearby_mines(board, height, width, cell)
         IN /\ Call_add_knowledge(cell, count)
            /\ \E p \in Perms(Len(other.knowledge) + 1) :
                  other' = add_knowledge_ordered(other, height, width, cell, count, p)

\* Variant of make_safe_move that pops from self.safes itself
MakeSafeMove_PopsSafes ==
    /\ move' \in make_safe_move(KB)
    /\ safes' = safes \ {move'}
    /\ lastOp' = "make_safe_move"
    /\ UNCHANGED <<height, width, board, moves_made, mines, knowledge,
                   lastCall, sentence, budget, marks, inRange, other>>

MakeSafeMove ==
    /\ move' \in make_safe_move(KB)
    /\ lastOp' = "make_safe_move"
    /\ UNCHANGED <<height, width, board, moves_made, mines, safes, knowledge,
                   lastCall, sentence, budget, marks, inRange, other>>

\* A direct call self.mark_mine(cell) / self.mark_safe(cell): kb is the
\* knowledge base the call leaves
Call_mark(op, cell, kb) ==
    /\ marks > 0
    /\ mines' = kb.mines
    /\ safes' = kb.safes
    /\ moves_made' = kb.moves_made
    /\ knowledge' = kb.knowledge
    /\ inRange' = kb.inRange
    /\ lastOp' = op
    /\ lastCall' = <<cell>>
    /\ marks' = marks - 1
    /\ move' = None
    /\ UNCHANGED <<height, width, board, sentence, budget, other>>

MarkMine ==
    \E cell \in Cells(height, width) :
        Call_mark("mark_mine", cell, mark_mine(KB, cell))

MarkSafe ==
    \E cell \in Cells(height, width) :
        Call_mark("mark_safe", cell, mark_safe(KB, cell))

MakeRandomMove ==
    /\ move' \in make_random_move(KB, height, width)
    /\ lastOp' = "make_random_move"
    /\ UNCHANGED <<height, width, board, moves_made, mines, safes, knowledge,
                   lastCall, sentence, budget, marks, inRange, other>>

Next == AddKnowledge \/ MakeSafeMove \/ MakeRandomMove

Spec == Init /\ [][Next]_vars

\* The same machine, Scenario B among its boards
SpecB == InitB /\ [][Next]_vars

SpecSquare == InitSquare /\ [][Next]_vars

\* Two knowledge bases side by side, for the order of the knowledge list
NextOrder == AddKnowledgeReordered \/ MakeSafeMove \/ MakeRandomMove

SpecOrder == Init /\ [][NextOrder]_vars

\* add_knowledge with direct calls of mark_mine and mark_safe in between
NextMark == AddKnowledge \/ MarkMine \/ MarkSafe

SpecMark == InitMark /\ [][NextMark]_vars

\* The methods of one Sentence
NextSentence == SentenceMarkMine \/ SentenceMarkSafe

SpecSentence == InitSentence /\ [][NextSentence]_vars

----------------------------------------------------------------------------
\* Properties

Returned == lastOp = "add_knowledge"

\* C1: every cell in mines holds a mine of the board, no cell in safes holds
\* one, and a cell returned by make_safe_move holds none
C1_Soundness ==
    /\ mines \subseteq board
    /\ safes \cap board = {}
    /\ (lastOp = "make_safe_move" /\ move # None) => move \notin board

C1_Witness ==
    /\ lastOp = "make_safe_move"
    /\ move # None
    /\ mines # {}
    /\ safes \ moves_made # {}

\* C2: after every add_knowledge no cell is both in mines and in safes
C2_Disjoint == Returned => mines \cap safes = {}

C2_Witness == Returned /\ mines # {} /\ safes \ moves_made # {}

\* C3: when add_knowledge returns, no held sentence with a non-empty cell
\* set has count 0 or count equal to the number of its cells
C3_SelfResolved ==
    Returned =>
        \A i \in DOMAIN knowledge :
            knowledge[i].cells # {} =>
                /\ knowledge[i].count # 0
                /\ knowledge[i].count # Cardinality(knowledge[i].cells)

\* C4: when add_knowledge returns, no two distinct held sentences A, B with
\* A.cells a superset of B.cells and a non-empty difference D still allow
\* the subset rule to conclude (equal counts, or |D| = A.count - B.count)
C4_PairsResolved ==
    Returned =>
        \A i, j \in DOMAIN knowledge :
            LET A == knowledge[i]
                B == knowledge[j]
                D == A.cells \ B.cells
            IN (i # j /\ B.cells \subseteq A.cells /\ D # {}) =>
                   /\ A.count # B.count
                   /\ Cardinality(D) # A.count - B.count

\* The in-bounds neighbours of a cell
Neighbours(cell) == {c \in Window(cell) : c # cell /\ c \in Cells(height, width)}

\* C7 as stated: when the sentence built by add_knowledge has count 0, every
\* in-bounds neighbour of the probed cell is in safes on return; when its
\* count is the number of its cells, all its cells are in mines on return
C7_AllNeighboursSafe ==
    Returned =>
        /\ sentence.count = 0 => Neighbours(lastCall[1]) \subseteq safes
        /\ sentence.count = Cardinality(sentence.cells) =>
               sentence.cells \subseteq mines

\* C7 amended: when the sentence built by add_knowledge has count 0, every
\* in-bounds neighbour of the probed cell that is not in mines is in safes on
\* return; when its count is the number of its cells, all its cells are in
\* mines on return
C7_Decisive ==
    Returned =>
        /\ sentence.count = 0 =>
               Neighbours(lastCall[1]) \ mines \subseteq safes
        /\ sentence.count = Cardinality(sentence.cells) =>
               sentence.cells \subseteq mines

C7_Witness ==
    /\ Returned
    /\ sentence.count = 0
    /\ sentence.cells # {}
    /\ Neighbours(lastCall[1]) \cap mines # {}
    /\ sentence.cells \subseteq safes

AllProbed == Cells(height, width) \ board \subseteq moves_made

\* C8: once every cell without a mine has been probed, mines holds every
\* mine that has a neighbour without a mine and safes holds every cell
\* without a mine; on the board of Scenario B mines is then {(0,0)}
C8_Isolated ==
    AllProbed =>
        /\ \A m \in board : Neighbours(m) \ board # {} => m \in mines
        /\ Cells(height, width) \ board \subseteq safes
        /\ (height = 3 /\ width = 3 /\ board = {<<0, 0>>}) => mines = {<<0, 0>>}

C8_Witness ==
    /\ height = 3
    /\ width = 3
    /\ board = {<<0, 0>>}
    /\ AllProbed
    /\ mines = {<<0, 0>>}

\* C9: no add_knowledge (and no other call) removes a member of mines,
\* safes or moves_made
C9_Monotonic ==
    [][/\ mines \subseteq mines'
       /\ safes \subseteq safes'
       /\ moves_made \subseteq moves_made']_vars

C9_Witness ==
    /\ Returned
    /\ Cardinality(moves_made) >= 2
    /\ mines # {}
    /\ safes \ moves_made # {}

\* C10: make_safe_move returns None exactly when safes - moves_made is
\* empty, and otherwise a member of safes - moves_made
C10_SafeMove ==
    lastOp = "make_safe_move" =>
        /\ move = None <=> safes \ moves_made = {}
        /\ move # None => move \in safes \ moves_made

C10_Witness ==
    /\ lastOp = "make_safe_move"
    /\ moves_made # {}
    /\ Cardinality(safes \ moves_made) = 1
    /\ move \in safes \ moves_made

IsQuery(op) == op \in {"make_safe_move", "make_random_move"}

\* C11: a call of make_safe_move or make_random_move changes neither mines,
\* safes, moves_made nor any held sentence
C11_ReadOnly ==
    [][IsQuery(lastOp') =>
          UNCHANGED <<mines, safes, moves_made, knowledge>>]_vars

C11_Witness ==
    /\ IsQuery(lastOp)
    /\ move # None
    /\ knowledge # <<>>
    /\ mines # {}

\* The cells make_random_move may choose
Eligible == Cells(height, width) \ (mines \cup moves_made)

\* C12: make_random_move returns None exactly when every cell of the grid is
\* in mines or moves_made, and otherwise a cell of the grid in neither; every
\* such cell, the ones in safes included, can be the cell returned
C12_RandomMove ==
    /\ lastOp = "make_random_move" =>
           /\ move = None <=> Eligible = {}
           /\ move # None => move \in Eligible
    /\ \A c \in Eligible : ENABLED (MakeRandomMove /\ move' = c)

C12_Witness ==
    /\ lastOp = "make_random_move"
    /\ move \in safes \ moves_made
    /\ Eligible \ safes # {}

\* C13: the sentence add_knowledge(cell, count) appends has as cells the
\* in-bounds neighbours of cell that are in neither safes nor mines when it
\* is built, and as count the count passed minus the number of neighbours
\* of cell in mines
C13_Construction ==
    [][lastOp' = "add_knowledge" =>
          LET cell == lastCall'[1]
              count == lastCall'[2]
          IN sentence' =
                 Sentence({c \in Neighbours(cell) :
                              c \notin safes /\ c \notin mines},
                          count - Cardinality(Neighbours(cell) \cap mines))]_vars

C13_Witness ==
    /\ Returned
    /\ sentence.cells # {}
    /\ sentence.count < lastCall[2]

\* C14: a direct mark_mine(cell) adds cell to mines, a direct mark_safe(cell)
\* adds cell to safes; either applies the reduction of Sentence for cell to
\* every held sentence and changes nothing else: the other sets stay, no
\* sentence is added or removed, no other cell is marked
C14_PropagationOnly ==
    [][/\ lastOp' = "mark_mine" =>
             /\ mines' = mines \cup {lastCall'[1]}
             /\ safes' = safes
             /\ moves_made' = moves_made
             /\ Len(knowledge') = Len(knowledge)
             /\ \A i \in DOMAIN knowledge :
                    knowledge'[i] = Sentence_mark_mine(knowledge[i], lastCall'[1])
       /\ lastOp' = "mark_safe" =>
             /\ safes' = safes \cup {lastCall'[1]}
             /\ mines' = mines
             /\ moves_made' = moves_made
             /\ Len(knowledge') = Len(knowledge)
             /\ \A i \in DOMAIN knowledge :
                    knowledge'[i] = Sentence_mark_safe(knowledge[i], lastCall'[1])]_vars

C14_Witness ==
    /\ lastOp = "mark_mine"
    /\ lastCall[1] \in sentence.cells
    /\ \E i \in DOMAIN knowledge : knowledge[i].cells # {}

\* C15: Sentence.mark_mine(c) with c among the cells removes c and lowers
\* count by exactly 1, Sentence.mark_safe(c) with c among the cells removes
\* c and keeps count; with c not among the cells both leave cells and count
\* as they are
C15_Reduction ==
    [][/\ lastOp' = "Sentence.mark_mine" =>
             IF lastCall'[1] \in sentence.cells
             THEN /\ sentence'.cells = sentence.cells \ {lastCall'[1]}
                  /\ sentence'.count = sentence.count - 1
             ELSE sentence' = sentence
       /\ lastOp' = "Sentence.mark_safe" =>
             IF lastCall'[1] \in sentence.cells
             THEN /\ sentence'.cells = sentence.cells \ {lastCall'[1]}
                  /\ sentence'.count = sentence.count
             ELSE sentence' = sentence]_vars

C15_Witness ==
    /\ lastOp = "Sentence.mark_safe"
    /\ sentence.cells # {}
    /\ sentence.count = Cardinality(sentence.cells) + 1

\* C16: a cell of a held sentence is in neither mines nor safes, whatever
\* add_knowledge, mark_mine and mark_safe calls came before
C16_Unresolved ==
    \A i \in DOMAIN knowledge :
        knowledge[i].cells \cap (mines \cup safes) = {}

C16_Witness ==
    /\ lastOp = "mark_safe"
    /\ lastCall[1] \in sentence.cells
    /\ \E i \in DOMAIN knowledge : knowledge[i].cells # {}

\* C17: with truthful counts every held sentence has 0 <= count <= |cells|,
\* between the calls and after every statement inside add_knowledge that
\* changes a sentence
C17_CountInRange == inRange /\ InRange(knowledge)

C17_Witness ==
    /\ Returned
    /\ mines # {}
    /\ \E i \in DOMAIN knowledge :
           /\ 0 < knowledge[i].count
           /\ knowledge[i].count < Cardinality(knowledge[i].cells)

\* C18: when add_knowledge returns, no two entries of the knowledge list
\* have the same cells and the same count
C18_Distinct ==
    Returned =>
        \A i, j \in DOMAIN knowledge :
            i # j => knowledge[i] # knowledge[j]

\* C19: when add_knowledge returns, no held sentence has an empty cell set
C19_NoneVacuous ==
    Returned => \A i \in DOMAIN knowledge : knowledge[i].cells # {}

\* C20 as stated: mines is the set of mines of the board if and only if
\* safes and moves_made together hold every cell without a mine
C20_WinEquivalent ==
    mines = board <=>
        Cells(height, width) \ board \subseteq safes \cup moves_made

\* C20 amended: mines is the set of mines of the board and safes with
\* moves_made holds every cell without a mine, both together, if and only if
\* every cell of the grid is in mines or in safes
C20_WinResolved ==
    (/\ mines = board
     /\ Cells(height, width) \ board \subseteq safes \cup moves_made)
        <=> mines \cup safes = Cells(height, width)

C20_Witness ==
    /\ Returned
    /\ mines = board
    /\ board # {}
    /\ safes \ moves_made # {}
    /\ mines \cup safes = Cells(height, width)

\* C6: with the same probes and counts, mines and safes are the same whatever
\* the order of the knowledge list when the passes of add_knowledge start
C6_Confluent ==
    Returned => (other.mines = mines /\ other.safes = safes)

SentenceSet(list) == {list[i] : i \in DOMAIN list}

\* C5: an add_knowledge that repeats the arguments of the add_knowledge
\* just before it changes neither mines, safes, moves_made nor the set of
\* held sentences
C5_Idempotent ==
    [][(Returned /\ lastOp' = "add_knowledge" /\ lastCall' = lastCall) =>
          /\ mines' = mines
          /\ safes' = safes
          /\ moves_made' = moves_made
          /\ SentenceSet(knowledge') = SentenceSet(knowledge)]_vars

====
